---- MODULE Spec2Model ----
(***************************************************************************)
(* The `database` source of vector-contrib (MySQL backend): the poll loop  *)
(* of src/sources/database/mysql.rs `run`, the construction path           *)
(* DatabaseConfig::build -> MySqlConfig::build, and the value normalizer   *)
(* `map_value` with the row mapping that calls it (these two also taken    *)
(* alone, on inputs of every kind: SpecPure).                              *)
(*                                                                         *)
(* Time is a discrete clock `now`; the environment advances it (Tick) at   *)
(* any point, also between two statements of the loop.  The database and   *)
(* the sink are the environment: each call into them either succeeds or    *)
(* fails.  A panic (an `unwrap` on Err/None) ends the task of the          *)
(* instance; `panicked` records which unwrap it was.                       *)
(***************************************************************************)
EXTENDS Integers, Sequences, FiniteSets, TLC

\* ------------------------------------------------------------------ bounds

\* The clock runs over 0..MaxTime.
MaxTime == 4
\* With two sources in the process, the clock runs over 0..MaxTimeMulti.
MaxTimeMulti == 2

\* ------------------------------------------------------- program constants

\* PoolConstraints::new(1, 1): lower and upper bound of opened connections.
PoolMin == 1
PoolMax == 1

\* ------------------------------------------------------------ configuration

\* Connector instances (configured `database` sources) of one process.
Instances == {"a", "b"}

NoValue == "None"

\* DatabaseConfig.schedule: Option<String>.  "*" fires at every instant,
\* "*/2" at every second instant, "?" is not a cron expression.
ScheduleValues == {NoValue, "?", "*", "*/2"}

\* DatabaseConfig.schedule_timezone: Option<String>.
TimezoneValues == {NoValue, "UTC", "Asia/Seoul", "Mars/Phobos"}

\* DatabaseConfig.statement: String.  "SELEC" is rejected by the server
\* when it is prepared.
StatementValues == {"SELECT 1", "SELEC"}

DatabaseConfig == [schedule : ScheduleValues,
                   schedule_timezone : TimezoneValues,
                   statement : StatementValues]

\* DatabaseConfig::default(): no schedule, no timezone; the statement of an
\* instance that is not configured is never read.
Unconfigured == [schedule |-> NoValue, schedule_timezone |-> NoValue,
                 statement |-> "SELECT 1"]

\* ------------------------------------------------------------ cron, chrono

\* Schedule::from_str: Err for a malformed expression, else the period of
\* the matching instants (in local time).
ScheduleFromStr(s) ==
    CASE s = "*"   -> [ok |-> TRUE,  period |-> 1]
      [] s = "*/2" -> [ok |-> TRUE,  period |-> 2]
      [] OTHER     -> [ok |-> FALSE, period |-> 0]

\* Tz::from_str: Err for an unknown name, else the zone's offset from UTC
\* in clock units.
TzFromStr(s) ==
    CASE s = "UTC"        -> [ok |-> TRUE,  offset |-> 0]
      [] s = "Asia/Seoul" -> [ok |-> TRUE,  offset |-> 1]
      [] OTHER            -> [ok |-> FALSE, offset |-> 0]

\* Tz::from_str(schedule_timezone.map_or("UTC", |v| v)).unwrap_or(UTC)
Timezone(c) ==
    LET name == IF c.schedule_timezone = NoValue THEN "UTC"
                ELSE c.schedule_timezone
        tz == TzFromStr(name)
    IN  IF tz.ok THEN tz.offset ELSE 0

\* An instant t (UTC clock) matches the schedule when its local time
\* (t + offset) is a multiple of the period.
Matches(period, offset, t) == (t + offset) % period = 0

\* Mutant of NextFire: the search includes `after` itself.
NextFireInclusive(period, offset, after) ==
    CHOOSE t \in after..(after + period - 1) :
        /\ Matches(period, offset, t)
        /\ \A u \in after..(t - 1) : ~Matches(period, offset, u)

\* schedule.upcoming(timezone).next(): the earliest matching instant
\* strictly after `after` (cron's Schedule::after is exclusive).
NextFire(period, offset, after) ==
    CHOOSE t \in (after + 1)..(after + period) :
        /\ Matches(period, offset, t)
        /\ \A u \in (after + 1)..(t - 1) : ~Matches(period, offset, u)

Max(a, b) == IF a >= b THEN a ELSE b

\* Mutant of ToStdOrDefault: the signed delay is used as it is.
ToStdUnclamped(delay) == delay

\* (next - now).to_std().unwrap_or_default(): a negative delay is zero.
ToStdOrDefault(delay) == Max(delay, 0)

\* ------------------------------------------------- map_value (normalizer)

\* Unsigned 64-bit integers are four 16-bit limbs <<l3, l2, l1, l0>>, most
\* significant first; signed ones are the same bits in two's complement.
HalfLimb == 32768

\* Mutant of I64TryFromU64: the cast `u as i64`, which wraps.
I64FromU64Wrapping(u) == [ok |-> TRUE, value |-> u]

\* i64::try_from(u64): Ok exactly when the top bit is clear (u <= 2^63-1);
\* the bits are unchanged.
I64TryFromU64(u) == [ok |-> u[1] < HalfLimb, value |-> u]

\* Mutant of AsU8: the conversion saturates at 255.
AsU8Saturating(x) == IF x > 255 THEN 255 ELSE x

\* `x as u8`: the low 8 bits.
AsU8(x) == x % 256

IsLeap(y) == (y % 4 = 0 /\ y % 100 # 0) \/ y % 400 = 0

DaysInMonth(y, m) ==
    CASE m \in {1, 3, 5, 7, 8, 10, 12} -> 31
      [] m \in {4, 6, 9, 11}           -> 30
      [] m = 2                         -> IF IsLeap(y) THEN 29 ELSE 28
      [] OTHER                         -> 0

\* Mutant of FromYmdOpt: any day up to 31 is taken, whatever the month.
FromYmdLenient(y, m, d) ==
    IF m \in 1..12 /\ d \in 1..31
    THEN [some |-> TRUE, y |-> y, m |-> m, d |-> d]
    ELSE [some |-> FALSE, y |-> 0, m |-> 0, d |-> 0]

\* NaiveDate::from_ymd_opt: None unless month and day name a calendar day.
FromYmdOpt(y, m, d) ==
    IF m \in 1..12 /\ d \in 1..DaysInMonth(y, m)
    THEN [some |-> TRUE, y |-> y, m |-> m, d |-> d]
    ELSE [some |-> FALSE, y |-> 0, m |-> 0, d |-> 0]

\* NaiveDate::and_hms_micro_opt: None on an invalid hour, minute, second or
\* microsecond (a microsecond of 1_000_000..1_999_999 is a leap second and
\* is accepted only with second 59).
AndHmsMicroOpt(h, mi, s, us) ==
    /\ h \in 0..23 /\ mi \in 0..59 /\ s \in 0..59
    /\ (us < 1000000 \/ (us < 2000000 /\ s = 59))

\* Floats are taken by name: "NaN", or a number ("0.0", "-1.5", "inf");
\* `float as f64` keeps the number, and NaN stays NaN.
\* Mutant of NotNanNew: the value is not checked (NotNan::new_unchecked).
NotNanNewUnchecked(f) == [ok |-> TRUE, value |-> f]

\* NotNan::new: Err for NaN, else the number.
NotNanNew(f) == [ok |-> f # "NaN", value |-> f]

Null == [kind |-> "Null"]

\* fn map_value(column_name, value) -> crate::Result<Value>
map_value(column_name, value) ==
    CASE value.tag = "NULL" ->
           [ok |-> TRUE, value |-> Null]
      [] value.tag = "Bytes" ->
           [ok |-> TRUE, value |-> [kind |-> "Bytes", bytes |-> value.bytes]]
      [] value.tag = "Int" ->
           [ok |-> TRUE, value |-> [kind |-> "Integer", int |-> value.int]]
      [] value.tag = "UInt" ->
           LET r == I64TryFromU64(value.uint)
           IN  IF r.ok
               THEN [ok |-> TRUE, value |-> [kind |-> "Integer", int |-> r.value]]
               ELSE [ok |-> FALSE,
                     error |-> <<"out of range integral type conversion attempted",
                                 column_name>>]
      [] value.tag \in {"Float", "Double"} ->
           LET r == NotNanNew(value.float)
           IN  IF r.ok
               THEN [ok |-> TRUE, value |-> [kind |-> "Float", float |-> r.value]]
               ELSE [ok |-> FALSE, error |-> <<"NaN", column_name>>]
      [] value.tag = "Date" ->
           LET date == FromYmdOpt(value.years, value.month, value.days)
           IN  IF date.some /\ AndHmsMicroOpt(value.hours, value.minutes,
                                              value.seconds, value.micro)
               THEN [ok |-> TRUE,
                     value |-> [kind |-> "Timestamp",
                                years |-> date.y, month |-> date.m, days |-> date.d,
                                hours |-> value.hours, minutes |-> value.minutes,
                                seconds |-> value.seconds, micro |-> value.micro]]
               ELSE [ok |-> FALSE, error |-> <<"Invalid date", column_name>>]
      [] value.tag = "Time" ->
           [ok |-> TRUE,
            value |-> [kind |-> "Bytes",
                       bytes |-> << IF value.negative THEN 1 ELSE 0,
                                    AsU8(value.days),
                                    value.hours,
                                    value.minutes,
                                    value.seconds,
                                    AsU8(value.micro) >>]]

\* The keys of an object built from `cols` (columns in order).
Keys(cols) == {cols[k].name : k \in 1..Len(cols)}

\* The last column of `cols` named `key`.
LastIndex(cols, key) ==
    CHOOSE k \in 1..Len(cols) :
        /\ cols[k].name = key
        /\ \A j \in (k + 1)..Len(cols) : cols[j].name # key

\* Mutant of MapRow: of columns of the same name the first is kept.
MapRowFirstWins(cols) ==
    [key \in Keys(cols) |->
        LET first == CHOOSE k \in 1..Len(cols) :
                        /\ cols[k].name = key
                        /\ \A j \in 1..(k - 1) : cols[j].name # key
            r == map_value(key, cols[first].value)
        IN  IF r.ok THEN r.value ELSE Null]

\* Value::Object(row.columns_ref().iter().enumerate().map(..).collect()):
\* collecting into the map, a later column replaces an earlier one of the
\* same name; a normalization error becomes Null (unwrap_or).
MapRow(cols) ==
    [key \in Keys(cols) |->
        LET col == cols[LastIndex(cols, key)]
            r == map_value(col.name, col.value)
        IN  IF r.ok THEN r.value ELSE Null]

\* rows.iter().map(..).collect_vec()
MapRows(rows) == [k \in 1..Len(rows) |-> MapRow(rows[k])]

\* What the server may return for the statement: no row, or one row
\* (id = 1, n = 2^63, which does not fit an i64).
IntOne == <<0, 0, 0, 1>>
TwoPow63 == <<HalfLimb, 0, 0, 0>>
RowAlice ==
    << [name |-> "id", value |-> [tag |-> "Int", int |-> IntOne]],
       [name |-> "n", value |-> [tag |-> "UInt", uint |-> TwoPow63]] >>

ResultSets == { <<>>, <<RowAlice>> }

\* ------------------------------------------------------------------- state

VARIABLES
    now,        \* the clock (Utc::now, tokio's timer)
    cfg,        \* cfg[i]: the DatabaseConfig of instance i
    pc,         \* pc[i]: where instance i is (see the actions)
    shutdown,   \* shutdown[i]: cx.shutdown of instance i has been raised
    pool,       \* pool[i]: connections of i's Pool, [idle, out]
    schedule,   \* schedule[i]: the parsed Schedule and timezone
    next,       \* next[i]: `next`, the fire time computed at line 116
    deadline,   \* deadline[i]: when sleep(duration) elapses
    rows,       \* rows[i]: `rows`, the result set of the tick
    event,      \* event[i]: `event`, <<>> or <<the LogEvent built>>
    sink,       \* sink[i]: the batches cx.out of i has accepted, in order
    panicked,   \* panicked[i]: the unwrap that ended i's task, or NoValue
    hist,       \* hist[i]: counters kept for the properties (not program state)
    arg,        \* the call of the normalizer or the row mapper taken alone
    ret         \* what that call returned: <<>> or <<the result>>

vars == <<now, cfg, pc, shutdown, pool, schedule, next, deadline, rows,
          event, sink, panicked, hist, arg, ret>>

\* hist[i].from      the instant line 116 computed `next` from
\* hist[i].measured  the instant (line 117) the delay was measured from
\* hist[i].fired     the fire time that triggered the latest tick
\* hist[i].waits     sleeps that completed (select! took the sleep branch)
\* hist[i].ticks     ticks started (line 131 reached)
\* hist[i].queries   executions of the statement issued (line 134)
\* hist[i].inFlight  executions issued and not yet answered
\* hist[i].attempted a connection to the database has been attempted
\* hist[i].raisedIn  the tick (its number) in which shutdown was raised, or 0
NoHist == [from |-> 0 - 1, measured |-> 0 - 1, fired |-> 0 - 1, waits |-> 0,
           ticks |-> 0, queries |-> 0, inFlight |-> 0, attempted |-> FALSE,
           raisedIn |-> 0]

EmptyPool == [idle |-> 0, out |-> 0]
NoSchedule == [period |-> 0, offset |-> 0]

Terminal == {"done", "panicked"}
\* Querying (a connection is being acquired, the statement prepared and
\* executed, the rows mapped) and Emitting (the hand-off to the sink).
Querying == {"acquire", "prep", "exec", "exec_wait", "map"}
Emitting == {"send"}
Running(i) == pc[i] \notin Terminal \cup {"absent"}

\* No call of the normalizer is looked at on its own.
NoCall == [fn |-> "none"]

\* The state of the sources after the configuration of those in `active`
\* is loaded.
InitSources(active, configs) ==
    /\ now = 0
    /\ cfg \in [Instances -> configs \cup {Unconfigured}]
    /\ \A i \in Instances : i \notin active => cfg[i] = Unconfigured
    /\ \A i \in active : cfg[i] \in configs
    /\ pc = [i \in Instances |-> IF i \in active THEN "config" ELSE "absent"]
    /\ shutdown = [i \in Instances |-> FALSE]
    /\ pool = [i \in Instances |-> EmptyPool]
    /\ schedule = [i \in Instances |-> NoSchedule]
    /\ next = [i \in Instances |-> 0]
    /\ deadline = [i \in Instances |-> 0]
    /\ rows = [i \in Instances |-> <<>>]
    /\ event = [i \in Instances |-> <<>>]
    /\ sink = [i \in Instances |-> <<>>]
    /\ panicked = [i \in Instances |-> NoValue]
    /\ hist = [i \in Instances |-> NoHist]

\* The state after the configuration of the sources in `active` is loaded.
InitOf(active, configs) ==
    /\ InitSources(active, configs)
    /\ arg = NoCall
    /\ ret = <<>>

\* An unwrap on Err/None: the task of i unwinds, dropping its locals (the
\* connection, the pool); nothing of it runs again.
Panic(i, what, h) ==
    /\ pc' = [pc EXCEPT ![i] = "panicked"]
    /\ panicked' = [panicked EXCEPT ![i] = what]
    /\ pool' = [pool EXCEPT ![i] = EmptyPool]
    /\ rows' = [rows EXCEPT ![i] = <<>>]
    /\ event' = [event EXCEPT ![i] = <<>>]
    /\ hist' = [hist EXCEPT ![i] = h]
    /\ UNCHANGED <<arg, ret, now, cfg, shutdown, schedule, next, deadline,
                   sink>>

\* ----------------------------------------------------------------- actions

\* The environment: time passes.
Tick ==
    /\ now < MaxTime
    /\ now' = now + 1
    /\ UNCHANGED <<arg, ret, cfg, pc, shutdown, pool, schedule, next,
                   deadline, rows, event, sink, panicked, hist>>

\* The environment: the shutdown signal of a live source is raised.
ShutdownRaise(i) ==
    /\ Running(i)
    /\ ~shutdown[i]
    /\ shutdown' = [shutdown EXCEPT ![i] = TRUE]
    /\ hist' = [hist EXCEPT ![i].raisedIn =
                    IF pc[i] \in Querying \cup Emitting THEN hist[i].waits ELSE 0]
    /\ UNCHANGED <<arg, ret, now, cfg, pc, pool, schedule, next, deadline,
                   rows, event, sink, panicked>>

\* DatabaseConfig::build -> MySqlConfig::build: wraps the future of `run`
\* and returns Ok; nothing of the configuration is looked at.
Build(i) ==
    /\ pc[i] = "config"
    /\ pc' = [pc EXCEPT ![i] = "built"]
    /\ UNCHANGED <<arg, ret, now, cfg, shutdown, pool, schedule, next,
                   deadline, rows, event, sink, panicked, hist>>

\* run, lines 95-105: Pool::new opens the pool's minimum of connections
\* (PoolMin) and fails when one cannot be opened.
PoolNew(i) ==
    /\ pc[i] = "built"
    /\ \E connected \in BOOLEAN :
        LET h == [hist[i] EXCEPT !.attempted = @ \/ PoolMin > 0]
        IN  IF connected \/ PoolMin = 0
            THEN /\ pool' = [pool EXCEPT ![i] = [idle |-> PoolMin, out |-> 0]]
                 /\ pc' = [pc EXCEPT ![i] = "parse"]
                 /\ hist' = [hist EXCEPT ![i] = h]
                 /\ UNCHANGED <<arg, ret, now, cfg, shutdown, schedule, next,
                                deadline, rows, event, sink, panicked>>
            ELSE Panic(i, "Pool::new", h)

\* Mutant of ParseSchedule: the parsed timezone is unwrapped, with no
\* fallback.
ParseScheduleTzUnwrap(i) ==
    /\ pc[i] = "parse"
    /\ IF cfg[i].schedule = NoValue
       THEN Panic(i, "schedule: None", hist[i])
       ELSE LET parsed == ScheduleFromStr(cfg[i].schedule)
                name == IF cfg[i].schedule_timezone = NoValue THEN "UTC"
                        ELSE cfg[i].schedule_timezone
            IN  IF ~parsed.ok
                THEN Panic(i, "Schedule::from_str", hist[i])
                ELSE IF ~TzFromStr(name).ok
                THEN Panic(i, "Tz::from_str", hist[i])
                ELSE /\ schedule' = [schedule EXCEPT ![i] =
                            [period |-> parsed.period,
                             offset |-> TzFromStr(name).offset]]
                     /\ pc' = [pc EXCEPT ![i] = "compute_next"]
                     /\ UNCHANGED <<arg, ret, now, cfg, shutdown, pool, next,
                                    deadline, rows, event, sink, panicked,
                                    hist>>

\* run, lines 107-113: the schedule and the timezone are parsed.
ParseSchedule(i) ==
    /\ pc[i] = "parse"
    /\ IF cfg[i].schedule = NoValue
       THEN Panic(i, "schedule: None", hist[i])
       ELSE LET parsed == ScheduleFromStr(cfg[i].schedule)
            IN  IF ~parsed.ok
                THEN Panic(i, "Schedule::from_str", hist[i])
                ELSE /\ schedule' = [schedule EXCEPT ![i] =
                            [period |-> parsed.period, offset |-> Timezone(cfg[i])]]
                     /\ pc' = [pc EXCEPT ![i] = "compute_next"]
                     /\ UNCHANGED <<arg, ret, now, cfg, shutdown, pool, next,
                                    deadline, rows, event, sink, panicked,
                                    hist>>

\* Mutant of ComputeNext: the next fire time is searched from the fire time
\* of the previous tick, not from the current time.
ComputeNextFromFired(i) ==
    /\ pc[i] = "compute_next"
    /\ next' = [next EXCEPT ![i] =
                    NextFire(schedule[i].period, schedule[i].offset,
                             IF hist[i].fired >= 0 THEN hist[i].fired ELSE now)]
    /\ hist' = [hist EXCEPT ![i].from = now]
    /\ pc' = [pc EXCEPT ![i] = "read_now"]
    /\ UNCHANGED <<arg, ret, now, cfg, shutdown, pool, schedule, deadline,
                   rows, event, sink, panicked>>

\* run, line 116: the next fire time after the current time.
ComputeNext(i) ==
    /\ pc[i] = "compute_next"
    /\ next' = [next EXCEPT ![i] =
                    NextFire(schedule[i].period, schedule[i].offset, now)]
    /\ hist' = [hist EXCEPT ![i].from = now]
    /\ pc' = [pc EXCEPT ![i] = "read_now"]
    /\ UNCHANGED <<arg, ret, now, cfg, shutdown, pool, schedule, deadline,
                   rows, event, sink, panicked>>

\* run, lines 117-126: the delay from the current time, and the sleep armed
\* for it.
ReadNow(i) ==
    /\ pc[i] = "read_now"
    /\ deadline' = [deadline EXCEPT ![i] = now + ToStdOrDefault(next[i] - now)]
    /\ hist' = [hist EXCEPT ![i].measured = now]
    /\ pc' = [pc EXCEPT ![i] = "select"]
    /\ UNCHANGED <<arg, ret, now, cfg, shutdown, pool, schedule, next, rows,
                   event, sink, panicked>>

\* Mutant of SelectShutdown: the shutdown branch does not leave the loop
\* but falls through to the tick.
SelectShutdownNoBreak(i) ==
    /\ pc[i] = "select"
    /\ shutdown[i]
    /\ pc' = [pc EXCEPT ![i] = "acquire"]
    /\ hist' = [hist EXCEPT ![i].waits = @ + 1, ![i].fired = next[i]]
    /\ UNCHANGED <<arg, ret, now, cfg, shutdown, pool, schedule, next,
                   deadline, rows, event, sink, panicked>>

\* Mutant of SelectShutdown: the shutdown branch goes on with the loop
\* (continue) instead of leaving it.
SelectShutdownContinue(i) ==
    /\ pc[i] = "select"
    /\ shutdown[i]
    /\ pc' = [pc EXCEPT ![i] = "compute_next"]
    /\ UNCHANGED <<arg, ret, now, cfg, shutdown, pool, schedule, next,
                   deadline, rows, event, sink, panicked, hist>>

\* run, lines 121-125 and 163: select! takes the shutdown branch; the loop
\* breaks and run returns Ok(()).
SelectShutdown(i) ==
    /\ pc[i] = "select"
    /\ shutdown[i]
    /\ pc' = [pc EXCEPT ![i] = "done"]
    /\ pool' = [pool EXCEPT ![i] = EmptyPool]
    /\ UNCHANGED <<arg, ret, now, cfg, shutdown, schedule, next, deadline,
                   rows, event, sink, panicked, hist>>

\* run, lines 126-128: select! takes the sleep branch, the sleep having
\* elapsed.  With both branches ready select! takes either.
SelectSleep(i) ==
    /\ pc[i] = "select"
    /\ now >= deadline[i]
    /\ pc' = [pc EXCEPT ![i] = "acquire"]
    /\ hist' = [hist EXCEPT ![i].waits = @ + 1, ![i].fired = next[i]]
    /\ UNCHANGED <<arg, ret, now, cfg, shutdown, pool, schedule, next,
                   deadline, rows, event, sink, panicked>>

\* Pool::try_get_conn: an idle connection is taken (and checked), or one is
\* opened while fewer than PoolMax are open; otherwise the call times out.
TryGetConn(p, healthy) ==
    IF p.idle > 0
    THEN [ok |-> healthy, pool |-> [idle |-> p.idle - 1,
                                    out |-> p.out + (IF healthy THEN 1 ELSE 0)]]
    ELSE IF p.idle + p.out < PoolMax
    THEN [ok |-> healthy, pool |-> [idle |-> p.idle,
                                    out |-> p.out + (IF healthy THEN 1 ELSE 0)]]
    ELSE [ok |-> FALSE, pool |-> p]

\* Mutant of Acquire: a failed acquisition is tried again.
AcquireRetry(i) ==
    /\ pc[i] = "acquire"
    /\ \E healthy \in BOOLEAN :
        LET got == TryGetConn(pool[i], healthy)
        IN  /\ pool' = [pool EXCEPT ![i] = IF got.ok THEN got.pool ELSE @]
            /\ pc' = [pc EXCEPT ![i] = IF got.ok THEN "prep" ELSE "acquire"]
            /\ hist' = [hist EXCEPT ![i].ticks = @ + 1, ![i].attempted = TRUE]
            /\ hist[i].ticks < MaxTime
            /\ UNCHANGED <<arg, ret, now, cfg, shutdown, schedule, next,
                           deadline, rows, event, sink, panicked>>

\* run, lines 131-132: a connection is acquired from the pool.
Acquire(i) ==
    /\ pc[i] = "acquire"
    /\ \E healthy \in BOOLEAN :
        LET got == TryGetConn(pool[i], healthy)
            h == [hist[i] EXCEPT !.ticks = @ + 1, !.attempted = TRUE]
        IN  IF got.ok
            THEN /\ pool' = [pool EXCEPT ![i] = got.pool]
                 /\ pc' = [pc EXCEPT ![i] = "prep"]
                 /\ hist' = [hist EXCEPT ![i] = h]
                 /\ UNCHANGED <<arg, ret, now, cfg, shutdown, schedule, next,
                                deadline, rows, event, sink, panicked>>
            ELSE Panic(i, "try_get_conn", h)

\* run, line 133: the statement is prepared; the server rejects a
\* statement it cannot parse, and any call may fail on a lost connection.
Prep(i) ==
    /\ pc[i] = "prep"
    /\ \E served \in BOOLEAN :
        IF served /\ cfg[i].statement = "SELECT 1"
        THEN /\ pc' = [pc EXCEPT ![i] = "exec"]
             /\ UNCHANGED <<arg, ret, now, cfg, shutdown, pool, schedule,
                            next, deadline, rows, event, sink, panicked,
                            hist>>
        ELSE Panic(i, "prep", hist[i])

\* Mutant of ExecStart: the execution is started and not waited for; the
\* loop goes on to the next iteration.
ExecStartDetached(i) ==
    /\ pc[i] = "exec"
    /\ hist' = [hist EXCEPT ![i].queries = @ + 1, ![i].inFlight = @ + 1]
    /\ pc' = [pc EXCEPT ![i] = "compute_next"]
    /\ UNCHANGED <<arg, ret, now, cfg, shutdown, pool, schedule, next,
                   deadline, rows, event, sink, panicked>>

\* run, line 134: the statement is sent for execution.
ExecStart(i) ==
    /\ pc[i] = "exec"
    /\ hist' = [hist EXCEPT ![i].queries = @ + 1, ![i].inFlight = @ + 1]
    /\ pc' = [pc EXCEPT ![i] = "exec_wait"]
    /\ UNCHANGED <<arg, ret, now, cfg, shutdown, pool, schedule, next,
                   deadline, rows, event, sink, panicked>>

\* run, line 134: the execution ends, with the rows or with an error.
ExecFinish(i) ==
    /\ pc[i] = "exec_wait"
    /\ LET h == [hist[i] EXCEPT !.inFlight = @ - 1]
       IN  \/ \E result \in ResultSets :
                /\ rows' = [rows EXCEPT ![i] = result]
                /\ pc' = [pc EXCEPT ![i] = "map"]
                /\ hist' = [hist EXCEPT ![i] = h]
                /\ UNCHANGED <<arg, ret, now, cfg, shutdown, pool, schedule,
                               next, deadline, event, sink, panicked>>
           \/ Panic(i, "exec", h)

\* run, lines 136-159: the rows are mapped and the event is built with the
\* capture time.  (tick is not a field of the event: it names the tick the
\* event was built in.)
BuildEvent(i) ==
    /\ pc[i] = "map"
    /\ event' = [event EXCEPT ![i] =
                    << [timestamp |-> now, message |-> MapRows(rows[i]),
                        tick |-> hist[i].ticks] >>]
    /\ pc' = [pc EXCEPT ![i] = "send"]
    /\ UNCHANGED <<arg, ret, now, cfg, shutdown, pool, schedule, next,
                   deadline, rows, sink, panicked, hist>>

\* Mutant of Send: a tick whose query returned no row sends nothing.
SendSkipsEmpty(i) ==
    /\ pc[i] = "send"
    /\ sink' = [sink EXCEPT ![i] =
                    IF event[i][1].message = <<>> THEN @ ELSE Append(@, event[i])]
    /\ pool' = [pool EXCEPT ![i] = [idle |-> @.idle + 1, out |-> @.out - 1]]
    /\ rows' = [rows EXCEPT ![i] = <<>>]
    /\ event' = [event EXCEPT ![i] = <<>>]
    /\ pc' = [pc EXCEPT ![i] = "compute_next"]
    /\ UNCHANGED <<arg, ret, now, cfg, shutdown, schedule, next, deadline,
                   panicked, hist>>

\* Mutant of Send: the hand-off is started and not awaited; the loop goes
\* on while the record is still pending.
SendDetached(i) ==
    /\ pc[i] = "send"
    /\ pool' = [pool EXCEPT ![i] = [idle |-> @.idle + 1, out |-> @.out - 1]]
    /\ rows' = [rows EXCEPT ![i] = <<>>]
    /\ pc' = [pc EXCEPT ![i] = "compute_next"]
    /\ UNCHANGED <<arg, ret, now, cfg, shutdown, schedule, next, deadline,
                   event, sink, panicked, hist>>

\* Mutant of Send: the connection outlives the iteration (it is not given
\* back to the pool).
SendKeepsConn(i) ==
    /\ pc[i] = "send"
    /\ \/ /\ sink' = [sink EXCEPT ![i] = Append(@, event[i])]
          /\ rows' = [rows EXCEPT ![i] = <<>>]
          /\ event' = [event EXCEPT ![i] = <<>>]
          /\ pc' = [pc EXCEPT ![i] = "compute_next"]
          /\ UNCHANGED <<arg, ret, now, cfg, shutdown, pool, schedule, next,
                         deadline, panicked, hist>>
       \/ Panic(i, "send_batch", hist[i])

\* Mutant of Send: the result of the hand-off is dropped; after a failed
\* send the loop goes on.
SendIgnoresError(i) ==
    /\ pc[i] = "send"
    /\ \E accepted \in BOOLEAN :
        /\ sink' = [sink EXCEPT ![i] = IF accepted THEN Append(@, event[i]) ELSE @]
        /\ pool' = [pool EXCEPT ![i] = [idle |-> @.idle + 1, out |-> @.out - 1]]
        /\ rows' = [rows EXCEPT ![i] = <<>>]
        /\ event' = [event EXCEPT ![i] = <<>>]
        /\ pc' = [pc EXCEPT ![i] = "compute_next"]
        /\ UNCHANGED <<arg, ret, now, cfg, shutdown, schedule, next, deadline,
                       panicked, hist>>

\* run, lines 160-161: the sink accepts the batch of the one event (or the
\* send fails); the iteration ends, its locals (conn, rows, event) are
\* dropped and the connection goes back to the pool.
Send(i) ==
    /\ pc[i] = "send"
    /\ \/ /\ sink' = [sink EXCEPT ![i] = Append(@, event[i])]
          /\ pool' = [pool EXCEPT ![i] = [idle |-> @.idle + 1, out |-> @.out - 1]]
          /\ rows' = [rows EXCEPT ![i] = <<>>]
          /\ event' = [event EXCEPT ![i] = <<>>]
          /\ pc' = [pc EXCEPT ![i] = "compute_next"]
          /\ UNCHANGED <<arg, ret, now, cfg, shutdown, schedule, next,
                         deadline, panicked, hist>>
       \/ Panic(i, "send_batch", hist[i])

Step(i) ==
    \/ ShutdownRaise(i)
    \/ Build(i)
    \/ PoolNew(i)
    \/ ParseSchedule(i)
    \/ ComputeNext(i)
    \/ ReadNow(i)
    \/ SelectShutdown(i)
    \/ SelectSleep(i)
    \/ Acquire(i)
    \/ Prep(i)
    \/ ExecStart(i)
    \/ ExecFinish(i)
    \/ BuildEvent(i)
    \/ Send(i)

Next == Tick \/ \E i \in Instances : Step(i)

\* One configured source.
Init == InitOf({"a"}, DatabaseConfig)

Spec == Init /\ [][Next]_vars

\* Two configured sources in one process, each polling at every instant.
MultiConfigs ==
    {c \in DatabaseConfig :
        c.schedule = "*" /\ c.schedule_timezone = NoValue /\ c.statement = "SELECT 1"}

InitMulti == InitOf(Instances, MultiConfigs)

\* The two sources start at most as many ticks between them as there are
\* sources.
TicksStarted == hist["a"].waits + hist["b"].waits

NextMulti ==
    \/ Tick /\ now < MaxTimeMulti
    \/ \E i \in Instances :
          \/ ShutdownRaise(i)
          \/ Build(i)
          \/ PoolNew(i)
          \/ ParseSchedule(i)
          \/ ComputeNext(i)
          \/ ReadNow(i)
          \/ SelectShutdown(i)
          \/ SelectSleep(i) /\ TicksStarted < Cardinality(Instances)
          \/ Acquire(i)
          \/ Prep(i)
          \/ ExecStart(i)
          \/ ExecFinish(i)
          \/ BuildEvent(i)
          \/ Send(i)

SpecMulti == InitMulti /\ [][NextMulti]_vars

\* The steps of the task of instance i.
LoopStep(i) ==
    \/ Build(i)
    \/ PoolNew(i)
    \/ ParseSchedule(i)
    \/ ComputeNext(i)
    \/ ReadNow(i)
    \/ SelectShutdown(i)
    \/ SelectSleep(i)
    \/ Acquire(i)
    \/ Prep(i)
    \/ ExecStart(i)
    \/ ExecFinish(i)
    \/ BuildEvent(i)
    \/ Send(i)

\* The runtime polls a task that can make progress (the source is started,
\* a ready future is polled again, the calls into the database and the
\* sink return); and select!, which picks at random among the branches
\* that are ready, does not pass over the shutdown branch forever.
Fairness ==
    \A i \in Instances : WF_vars(LoopStep(i)) /\ SF_vars(SelectShutdown(i))

\* One configured source whose configuration is in order.
LiveConfigs ==
    {c \in DatabaseConfig :
        /\ c.schedule \in {"*", "*/2"}
        /\ c.schedule_timezone \in {NoValue, "Asia/Seoul"}
        /\ c.statement = "SELECT 1"}

InitLive == InitOf({"a"}, LiveConfigs)

SpecLive == InitLive /\ [][Next]_vars /\ Fairness

\* --------------------------------- the normalizer and the row mapper alone

\* Columns per row, at most.
MaxCols == 2

\* col.name_str()
ColumnNames == {"id", "n"}

\* 64-bit patterns: the top limb on either side of 2^15, the others all
\* zeros or all ones.
Limbs64 ==
    {<<l3, l2, l1, l0>> : l3 \in {0, 1, HalfLimb - 1, HalfLimb, 65535},
                          l2 \in {0, 65535}, l1 \in {0, 65535}, l0 \in {0, 1, 65535}}

\* mysql::Value::Date(u16, u8, u8, u8, u8, u8, u32)
DateValues ==
    {[tag |-> "Date", years |-> y, month |-> m, days |-> d,
      hours |-> t[1], minutes |-> t[2], seconds |-> t[3], micro |-> t[4]] :
        y \in {0, 1900, 2000, 2023, 2024},
        m \in {0, 1, 2, 4, 12, 13},
        d \in {0, 1, 28, 29, 30, 31, 32},
        t \in {<<0, 0, 0, 0>>, <<23, 59, 59, 999999>>, <<24, 0, 0, 0>>,
               <<0, 60, 0, 0>>, <<0, 0, 60, 0>>, <<0, 0, 0, 1000000>>,
               <<23, 59, 59, 1500000>>}}

\* mysql::Value::Time(bool, u32, u8, u8, u8, u32)
TimeValues ==
    {[tag |-> "Time", negative |-> neg, days |-> d, hours |-> h,
      minutes |-> mi, seconds |-> 59, micro |-> us] :
        neg \in BOOLEAN, d \in {0, 34, 255, 256, 300}, h \in {0, 23, 255},
        mi \in {0, 59}, us \in {0, 255, 256, 999999}}

\* mysql::Value, every variant.
NativeValues ==
    {[tag |-> "NULL"]}
    \cup {[tag |-> "Bytes", bytes |-> b] : b \in {<<>>, <<104, 105>>}}
    \cup {[tag |-> "Int", int |-> n] : n \in Limbs64}
    \cup {[tag |-> "UInt", uint |-> n] : n \in Limbs64}
    \cup {[tag |-> t, float |-> f] :
            t \in {"Float", "Double"}, f \in {"NaN", "0.0", "-1.5", "inf"}}
    \cup DateValues
    \cup TimeValues

\* The values of the columns of a row: one that normalizes and one that
\* does not, of each kind that can fail, and a NULL.
RowValues ==
    {[tag |-> "NULL"],
     [tag |-> "Int", int |-> IntOne],
     [tag |-> "UInt", uint |-> TwoPow63],
     [tag |-> "Double", float |-> "NaN"],
     [tag |-> "Float", float |-> "-1.5"],
     [tag |-> "Date", years |-> 2023, month |-> 2, days |-> 30,
      hours |-> 0, minutes |-> 0, seconds |-> 0, micro |-> 0]}

Columns(values) == [name : ColumnNames, value : values]

RECURSIVE RowsOf(_)
\* The rows of exactly n columns.
RowsOf(n) ==
    IF n = 0 THEN {<<>>}
    ELSE {Append(r, c) : r \in RowsOf(n - 1), c \in Columns(RowValues)}

\* The calls looked at: map_value on one column, and the mapping of a row.
Calls ==
    {[fn |-> "map_value", column_name |-> c.name, value |-> c.value] :
        c \in Columns(NativeValues)}
    \cup {[fn |-> "map_row", cols |-> r] :
            r \in UNION {RowsOf(n) : n \in 0..MaxCols}}

\* map_value(col.name_str(), value) is called.
CallMapValue ==
    /\ arg.fn = "map_value"
    /\ ret = <<>>
    /\ ret' = <<map_value(arg.column_name, arg.value)>>
    /\ UNCHANGED <<arg, now, cfg, pc, shutdown, pool, schedule, next,
                   deadline, rows, event, sink, panicked, hist>>

\* One row of the result set is mapped (the closure of lines 138-150).
CallMapRow ==
    /\ arg.fn = "map_row"
    /\ ret = <<>>
    /\ ret' = <<MapRow(arg.cols)>>
    /\ UNCHANGED <<arg, now, cfg, pc, shutdown, pool, schedule, next,
                   deadline, rows, event, sink, panicked, hist>>

InitPure ==
    /\ InitSources({}, {Unconfigured})
    /\ arg \in Calls
    /\ ret = <<>>

NextPure == CallMapValue \/ CallMapRow

\* No source runs; one call is made, on any of the inputs.
SpecPure == InitPure /\ [][NextPure]_vars

\* What of the state belongs to instance i.
InstanceState(i) ==
    <<cfg[i], pc[i], shutdown[i], pool[i], schedule[i], next[i], deadline[i],
      rows[i], event[i], sink[i], panicked[i], hist[i]>>

\* ------------------------------------------------------------- properties

TypeOK ==
    /\ now \in 0..MaxTime
    /\ \A i \in Instances :
        /\ pool[i].idle + pool[i].out <= PoolMax
        /\ Len(event[i]) <= 1

\* The unwraps of a tick's connection and query calls.
TickFailures == {"try_get_conn", "prep", "exec"}

\* The ticks of i that ran to the end (the sink took their record): every
\* tick started, less the one under way or the one that failed.
Completed(i) ==
    hist[i].ticks -
        (IF \/ pc[i] \in {"prep", "exec", "exec_wait", "map", "send"}
            \/ panicked[i] \in TickFailures \cup {"send_batch"}
         THEN 1 ELSE 0)

\* C1 (as claimed): with no schedule configured, the instance ends having
\* executed the statement exactly once and emitted that tick's record, and
\* it ends by returning (no second tick, no panic).
C1_NoScheduleRunsOnce ==
    \A i \in Instances :
        (cfg[i].schedule = NoValue /\ pc[i] \in Terminal) =>
            /\ pc[i] = "done"
            /\ hist[i].queries = 1
            /\ Len(sink[i]) = 1

\* C2: from Waiting with the shutdown signal raised and the delay not yet
\* elapsed, the only step the loop takes is to its terminal state, with no
\* connection acquired, no query issued and nothing emitted; and nothing is
\* acquired, queried or emitted once the loop has ended.
C2_ShutdownWhileWaiting ==
    [][\A i \in Instances :
        /\ (pc[i] = "select" /\ shutdown[i] /\ now < deadline[i]) =>
              /\ pc'[i] \in {"select", "done"}
              /\ sink'[i] = sink[i]
              /\ hist'[i] = hist[i]
              /\ pool'[i].out = 0
        /\ pc[i] = "done" =>
              /\ pc'[i] = "done"
              /\ sink'[i] = sink[i]
              /\ hist'[i] = hist[i]
              /\ pool'[i] = EmptyPool]_vars

\* C2 witness: the loop ended from a wait whose delay had not elapsed,
\* before any tick.
C2_Witness ==
    /\ pc["a"] = "done"
    /\ now < deadline["a"]
    /\ hist["a"].waits = 0
    /\ hist["a"].ticks = 0 /\ hist["a"].queries = 0
    /\ sink["a"] = <<>>

\* C3: when acquiring the connection, preparing or executing the statement
\* fails, the instance ends (panicked, naming the failed call) with no
\* record for that tick, with one acquisition per completed wait and at
\* most one execution per tick (nothing retried); and an instance that has
\* ended that way never moves again.
C3_FailFast ==
    [][\A i \in Instances :
        /\ panicked'[i] \in TickFailures =>
              /\ pc'[i] = "panicked"
              /\ Len(sink'[i]) = hist'[i].ticks - 1
              /\ sink'[i] = sink[i]
              /\ hist'[i].ticks = hist'[i].waits
              /\ hist'[i].queries <= hist'[i].ticks
              /\ hist'[i].inFlight = 0
        /\ pc[i] = "panicked" => InstanceState(i)' = InstanceState(i)]_vars

\* C3 witness: the second tick's acquisition failed, after one record.
C3_Witness ==
    /\ panicked["a"] = "try_get_conn"
    /\ hist["a"].ticks = 2
    /\ Len(sink["a"]) = 1

\* C4: the sink holds one batch per completed tick, each batch of exactly
\* one record, the k-th batch carrying the record of the k-th tick (so in
\* tick order, none twice, none merged), with capture times in order.
C4_OneBatchPerTick ==
    \A i \in Instances :
        /\ Len(sink[i]) = Completed(i)
        /\ \A k \in 1..Len(sink[i]) :
              /\ Len(sink[i][k]) = 1
              /\ sink[i][k][1].tick = k
              /\ k > 1 => sink[i][k - 1][1].timestamp <= sink[i][k][1].timestamp

\* C4 witness: two ticks done, the first of which returned no row.
C4_Witness ==
    /\ Len(sink["a"]) = 2
    /\ sink["a"][1][1].message = <<>>
    /\ sink["a"][2][1].message # <<>>
    /\ pc["a"] = "select"

\* C5: an instance never has more than one execution in flight, and has
\* none in flight when a tick acquires its connection, prepares or is about
\* to execute; and no step changes the state of two instances.
C5_OneQueryInFlight ==
    [][\A i \in Instances :
        /\ hist'[i].inFlight <= 1
        /\ pc'[i] \in {"acquire", "prep", "exec"} => hist'[i].inFlight = 0
        /\ \A j \in Instances \ {i} :
              \/ InstanceState(i)' = InstanceState(i)
              \/ InstanceState(j)' = InstanceState(j)]_vars

\* C5 witness: both instances have their query in flight, a's past the
\* fire time that follows the one that triggered it.
C5_Witness ==
    /\ pc["a"] = "exec_wait" /\ hist["a"].inFlight = 1
    /\ pc["b"] = "exec_wait" /\ hist["b"].inFlight = 1
    /\ now >= NextFire(schedule["a"].period, schedule["a"].offset, hist["a"].fired)

\* A configuration error: a cron expression that does not parse, or the
\* statement the server cannot parse.
ConfigurationError(c) ==
    \/ c.schedule # NoValue /\ ~ScheduleFromStr(c.schedule).ok
    \/ c.statement # "SELECT 1"

\* C6 (as claimed): with a configuration error, construction having
\* failed, no connection to the database is ever attempted.
C6_ConfigErrorFailsConstruction ==
    \A i \in Instances :
        (pc[i] # "absent" /\ ConfigurationError(cfg[i])) => ~hist[i].attempted

\* C7: the fire time waited for is the earliest matching instant strictly
\* after the time it was computed at (instants that passed during the tick
\* are skipped, not replayed); no tick starts without a completed wait, and
\* at most one completed wait has its tick still pending.
C7_MissedFireTimesSkipped ==
    \A i \in Instances :
        /\ pc[i] \in {"read_now", "select"} =>
              /\ next[i] > hist[i].from
              /\ Matches(schedule[i].period, schedule[i].offset, next[i])
              /\ \A u \in (hist[i].from + 1)..(next[i] - 1) :
                    ~Matches(schedule[i].period, schedule[i].offset, u)
        /\ hist[i].ticks <= hist[i].waits
        /\ hist[i].waits - Len(sink[i]) \in {0, 1}

\* C7 witness: a tick ran past later fire times; the loop now waits for a
\* fire time beyond them, with one tick run for one wait.
C7_Witness ==
    /\ pc["a"] = "select"
    /\ hist["a"].waits = 1 /\ hist["a"].ticks = 1 /\ Len(sink["a"]) = 1
    /\ next["a"] > hist["a"].fired + 2 * schedule["a"].period

\* C8: once the shutdown signal is raised the task ends: run returns Ok,
\* unless a call into the database or the sink fails first (the unwrap
\* then ends the task).
C8_ShutdownTerminates ==
    \A i \in Instances :
        shutdown[i] ~> (pc[i] = "done" \/ panicked[i] # NoValue)

\* C8 witness: shutdown was raised, and run returned Ok after a tick.
C8_Witness ==
    /\ shutdown["a"]
    /\ pc["a"] = "done"
    /\ panicked["a"] = NoValue
    /\ hist["a"].ticks = 1
    /\ hist["a"].raisedIn = 0

\* C9 (as claimed): when shutdown is raised during a tick (Querying or
\* Emitting), no tick starts after that one.
C9_NoTickAfterShutdownInTick ==
    \A i \in Instances :
        hist[i].raisedIn > 0 => hist[i].waits = hist[i].raisedIn

\* C9, the part that holds: when shutdown is raised during a tick, the tick
\* is not cancelled (the loop ends only from Waiting; a tick's stage is
\* left only for a later stage, or by a failure), its record is handed to
\* the sink on success, and from a Waiting whose delay has not elapsed the
\* loop goes nowhere but to its end.
C9_TickRunsToCompletion ==
    [][\A i \in Instances :
        hist[i].raisedIn > 0 =>
            /\ pc'[i] = "done" => pc[i] \in {"select", "done"}
            /\ pc[i] \in Querying \cup Emitting =>
                  pc'[i] \in Querying \cup Emitting \cup {"compute_next", "panicked"}
            /\ (pc[i] = "send" /\ pc'[i] = "compute_next") =>
                  /\ Len(event[i]) = 1
                  /\ event[i][1].tick = hist[i].ticks
                  /\ sink'[i] = Append(sink[i], event[i])
            /\ pc'[i] = "compute_next" => pc[i] \in {"send", "compute_next"}
            /\ (pc[i] = "select" /\ now < deadline[i]) =>
                  pc'[i] \in {"select", "done"}]_vars

\* Shutdown was raised during the first tick; its record went to the sink
\* and the loop ended at the next wait.
C9_EndsAfterTick ==
    /\ hist["a"].raisedIn = 1
    /\ Len(sink["a"]) = 1
    /\ pc["a"] = "done"
    /\ hist["a"].waits = 1

\* C10: the fire time that triggers a tick is strictly later than the one
\* that triggered the tick before it, and the fire time computed after a
\* tick is strictly later than the one that triggered that tick.
C10_FireTimesIncrease ==
    [][\A i \in Instances :
        /\ hist'[i].waits > hist[i].waits => hist'[i].fired > hist[i].fired
        /\ (pc'[i] = "read_now" /\ hist'[i].waits > 0) =>
              next'[i] > hist'[i].fired]_vars

\* C10 witness: a second tick has been triggered.
C10_Witness ==
    /\ hist["a"].waits = 2
    /\ pc["a"] = "acquire"
    /\ hist["a"].fired = next["a"]

\* The call looked at is a call of map_value, and it has returned.
Normalized == arg.fn = "map_value" /\ ret # <<>>

\* The call looked at is the mapping of a row, and it has returned.
RowMapped == arg.fn = "map_row" /\ ret # <<>>

\* The columns of `cols` that no later column of the same name replaces.
Surviving(cols) ==
    {k \in 1..Len(cols) : \A j \in (k + 1)..Len(cols) : cols[j].name # cols[k].name}

\* C11 (amended): mapping a row yields an object with exactly one entry per
\* distinct column name (so N entries for N columns of distinct names, and
\* fewer when names repeat); the entry of a name is the normalized value of
\* the last column of that name, or Null when its normalization fails;
\* whatever the outcomes, the object is produced.
C11_RowMapping ==
    RowMapped =>
        LET cols == arg.cols
            object == ret[1]
        IN  /\ DOMAIN object = {cols[k].name : k \in 1..Len(cols)}
            /\ Cardinality(DOMAIN object) = Cardinality(Surviving(cols))
            /\ Cardinality(Surviving(cols)) = Len(cols) =>
                    Cardinality(DOMAIN object) = Len(cols)
            /\ \A k \in Surviving(cols) :
                  LET r == map_value(cols[k].name, cols[k].value)
                  IN  object[cols[k].name] = IF r.ok THEN r.value ELSE Null

\* C11 (as claimed): mapping a row of N columns yields an object of exactly
\* N entries.
C11_ExactlyNEntries ==
    RowMapped => Cardinality(DOMAIN ret[1]) = Len(arg.cols)

\* C11 witness: two columns of one name, the later of which fails to
\* normalize: the object has the one entry, Null.
C11_Witness ==
    /\ RowMapped
    /\ Len(arg.cols) = 2
    /\ arg.cols[1].name = "n" /\ arg.cols[1].value.tag = "Int"
    /\ arg.cols[2].name = "n" /\ arg.cols[2].value.tag = "UInt"
    /\ DOMAIN ret[1] = {"n"}
    /\ ret[1]["n"] = Null

\* a <= b, for unsigned numbers given as limbs (most significant first).
LimbsLeq(a, b) ==
    \/ a = b
    \/ \E k \in 1..Len(a) :
          /\ a[k] < b[k]
          /\ \A j \in 1..(k - 1) : a[j] = b[j]

\* 2^63 - 1, the largest i64.
I64Max == <<HalfLimb - 1, 65535, 65535, 65535>>

\* C12: a signed integer normalizes to the Integer of the same value; an
\* unsigned integer v normalizes to Integer(v) when v <= 2^63 - 1, and
\* otherwise the normalization fails with an error naming the column (no
\* Integer, wrapped or truncated, is returned).
C12_IntegerConversion ==
    Normalized =>
        /\ arg.value.tag = "Int" =>
              /\ ret[1].ok
              /\ ret[1].value = [kind |-> "Integer", int |-> arg.value.int]
        /\ arg.value.tag = "UInt" =>
              IF LimbsLeq(arg.value.uint, I64Max)
              THEN /\ ret[1].ok
                   /\ ret[1].value = [kind |-> "Integer", int |-> arg.value.uint]
              ELSE /\ ~ret[1].ok
                   /\ ret[1].error[2] = arg.column_name

\* C12 witness: 2^63, the least unsigned value that does not fit, has been
\* refused with an error naming its column.
C12_Witness ==
    /\ Normalized
    /\ arg.value.tag = "UInt"
    /\ arg.value.uint = TwoPow63
    /\ arg.column_name = "n"
    /\ ~ret[1].ok
    /\ ret[1].error[2] = "n"

\* The value is a float or a double that is NaN.
IsNaN(value) == value.tag \in {"Float", "Double"} /\ value.float = "NaN"

\* C13: the normalization of a float or double that is NaN fails with an
\* error (it returns neither Null nor a Float); the row mapper stores Null
\* for a column whose value is NaN; and no Float of a mapped row is NaN.
C13_NaNRejected ==
    /\ (Normalized /\ IsNaN(arg.value)) =>
          /\ ~ret[1].ok
          /\ ret[1].error[2] = arg.column_name
    /\ (Normalized /\ ret[1].ok /\ ret[1].value.kind = "Float") =>
          ret[1].value.float # "NaN"
    /\ RowMapped =>
          /\ \A k \in Surviving(arg.cols) :
                IsNaN(arg.cols[k].value) => ret[1][arg.cols[k].name] = Null
          /\ \A key \in DOMAIN ret[1] :
                ret[1][key].kind = "Float" => ret[1][key].float # "NaN"

\* C13 witness: a row with a NaN column and a column holding a number has
\* been mapped: Null for the first, the Float for the second.
C13_Witness ==
    /\ RowMapped
    /\ Len(arg.cols) = 2
    /\ arg.cols[1] = [name |-> "id", value |-> [tag |-> "Double", float |-> "NaN"]]
    /\ arg.cols[2] = [name |-> "n", value |-> [tag |-> "Float", float |-> "-1.5"]]
    /\ ret[1]["id"] = Null
    /\ ret[1]["n"] = [kind |-> "Float", float |-> "-1.5"]

\* The Gregorian calendar: the lengths of the months of year y.
MonthLengths(y) ==
    LET leap == y % 4 = 0 /\ (y % 100 = 0 => y % 400 = 0)
    IN  <<31, IF leap THEN 29 ELSE 28, 31, 30, 31, 30, 31, 31, 30, 31, 30, 31>>

\* Year, month and day name a day of the calendar.
ValidDate(y, m, d) == m >= 1 /\ m <= 12 /\ d >= 1 /\ d <= MonthLengths(y)[m]

\* Hour, minute, second and microsecond name a time of the day.
ValidTime(h, mi, s, us) == h <= 23 /\ mi <= 59 /\ s <= 59 /\ us <= 999999

\* C14: date/time components that form a valid calendar date and time
\* normalize to the Timestamp of those very components (year, month, day,
\* hour, minute, second, microsecond, read as UTC); components that do not
\* form a valid calendar date make the normalization fail with the
\* invalid-date error naming the column.
C14_DateNormalization ==
    (Normalized /\ arg.value.tag = "Date") =>
        LET v == arg.value
        IN  /\ (ValidDate(v.years, v.month, v.days)
                  /\ ValidTime(v.hours, v.minutes, v.seconds, v.micro)) =>
                  /\ ret[1].ok
                  /\ ret[1].value =
                        [kind |-> "Timestamp", years |-> v.years,
                         month |-> v.month, days |-> v.days, hours |-> v.hours,
                         minutes |-> v.minutes, seconds |-> v.seconds,
                         micro |-> v.micro]
            /\ ~ValidDate(v.years, v.month, v.days) =>
                  /\ ~ret[1].ok
                  /\ ret[1].error = <<"Invalid date", arg.column_name>>

\* C14 witness: 30 February has been refused with the invalid-date error
\* naming its column.
C14_Witness ==
    /\ Normalized
    /\ arg.value.tag = "Date"
    /\ arg.value.years = 2024 /\ arg.value.month = 2 /\ arg.value.days = 30
    /\ ValidTime(arg.value.hours, arg.value.minutes, arg.value.seconds,
                 arg.value.micro)
    /\ ret[1] = [ok |-> FALSE, error |-> <<"Invalid date", arg.column_name>>]

\* The last instant of a leap day has become the Timestamp of its
\* components.
C14_LeapDayKept ==
    /\ Normalized
    /\ arg.value.tag = "Date"
    /\ arg.value.years = 2024 /\ arg.value.month = 2 /\ arg.value.days = 29
    /\ arg.value.micro = 999999
    /\ ret[1].ok
    /\ ret[1].value.days = 29 /\ ret[1].value.micro = 999999

\* The timezone identifier is absent or not recognized.
BadTimezone(c) ==
    c.schedule_timezone = NoValue \/ ~TzFromStr(c.schedule_timezone).ok

\* The unwraps of the calls into the database and the sink.
CallFailures == {"Pool::new", "try_get_conn", "prep", "exec", "send_batch"}

\* Before the schedule is parsed.
Starting == {"absent", "config", "built", "parse"}

\* C15: with the timezone absent or not recognized (and a cron expression
\* that parses) the schedule is evaluated in UTC (the fire times are the
\* instants matching it in UTC) and the task goes on: it ends, if at all,
\* by shutdown or on a failed call into the database or the sink; with a
\* malformed cron expression the task never gets past the parsing, where
\* it ends.
C15_BadTimezoneFallsBackToUtc ==
    \A i \in Instances :
        LET c == cfg[i]
            cronOk == c.schedule # NoValue /\ ScheduleFromStr(c.schedule).ok
        IN  /\ (BadTimezone(c) /\ cronOk /\ pc[i] \notin Starting) =>
                  /\ pc[i] = "panicked" => panicked[i] \in CallFailures
                  /\ schedule[i].offset = 0
                  /\ pc[i] \in {"read_now", "select"} =>
                        /\ next[i] % ScheduleFromStr(c.schedule).period = 0
                        /\ next[i] > hist[i].from
            /\ (c.schedule # NoValue /\ ~ScheduleFromStr(c.schedule).ok) =>
                  /\ pc[i] \in Starting \cup {"panicked"}
                  /\ pc[i] = "panicked" =>
                        panicked[i] \in {"Pool::new", "Schedule::from_str"}
                  /\ hist[i].waits = 0

\* C15 witness: with an unknown timezone and the schedule of every second
\* instant, a tick has run at an even instant (UTC) and the loop waits for
\* the next.
C15_Witness ==
    /\ cfg["a"].schedule_timezone = "Mars/Phobos"
    /\ cfg["a"].schedule = "*/2"
    /\ pc["a"] = "select"
    /\ Len(sink["a"]) = 1
    /\ hist["a"].fired = 2
    /\ next["a"] = 4

\* With a malformed cron expression the task has ended at the parsing.
C15_MalformedCronEnds ==
    /\ cfg["a"].schedule = "?"
    /\ cfg["a"].schedule_timezone = "Mars/Phobos"
    /\ panicked["a"] = "Schedule::from_str"

\* Waiting: the next fire time is computed, the delay measured and slept.
Waiting == {"compute_next", "read_now", "select"}

\* C16: while the loop is Waiting (or in a tick before its record is
\* built) no record is pending, and every tick started so far has had its
\* record accepted by the sink before the loop went back to Waiting; a
\* pending record exists only during the hand-off, it is the record of the
\* tick under way, and there is never more than one; the loop leaves the
\* hand-off for Waiting only by the sink accepting that record.
C16_SinkAcceptsBeforeNextWait ==
    [][\A i \in Instances :
        /\ Len(event'[i]) <= 1
        /\ event'[i] # <<>> =>
              /\ pc'[i] = "send"
              /\ event'[i][1].tick = hist'[i].ticks
              /\ Len(sink'[i]) = hist'[i].ticks - 1
        /\ pc'[i] \in Waiting =>
              /\ event'[i] = <<>>
              /\ Len(sink'[i]) = hist'[i].ticks
        /\ (pc[i] = "send" /\ pc'[i] \in Waiting) =>
              sink'[i] = Append(sink[i], event[i])
        /\ hist'[i].ticks > hist[i].ticks =>
              /\ event[i] = <<>>
              /\ Len(sink[i]) = hist[i].ticks]_vars

\* C16 witness: the second tick's record is pending at the sink, the first
\* having been accepted.
C16_Witness ==
    /\ pc["a"] = "send"
    /\ Len(event["a"]) = 1
    /\ event["a"][1].tick = 2
    /\ Len(sink["a"]) = 1

\* The delay slept before the tick: from the instant it was measured at
\* (line 117) to the instant the sleep elapses.
Delay(i) == deadline[i] - hist[i].measured

\* C17 (amended): in every iteration the computed fire time is strictly
\* after the time it was computed from (line 116); the delay is measured
\* from a later reading of the clock (line 117) and is the time left to the
\* fire time, or zero when that reading has reached or passed the fire
\* time: it is never negative, and it is zero only in that case.
C17_DelayNeverNegative ==
    \A i \in Instances :
        /\ pc[i] \in {"read_now", "select"} => next[i] > hist[i].from
        /\ pc[i] = "select" =>
              /\ hist[i].measured >= hist[i].from
              /\ Delay(i) >= 0
              /\ next[i] > hist[i].measured => Delay(i) = next[i] - hist[i].measured
              /\ Delay(i) = 0 <=> next[i] <= hist[i].measured

\* C17 (as claimed): the fire time is strictly after the time the delay is
\* measured from, and the delay slept is positive.
C17_DelayPositive ==
    \A i \in Instances :
        pc[i] = "select" =>
            /\ next[i] > hist[i].measured
            /\ Delay(i) > 0

\* C17 witness: the clock passed the fire time between its computation and
\* the measuring of the delay; the delay is zero.
C17_Witness ==
    /\ pc["a"] = "select"
    /\ next["a"] > hist["a"].from
    /\ next["a"] < hist["a"].measured
    /\ Delay("a") = 0

\* C18 (amended): a native time-of-day/duration value always normalizes to
\* a Bytes payload of exactly 6 bytes: the sign flag (1 when negative, else
\* 0), days modulo 256, then hours, minutes and seconds equal to the
\* inputs, then microseconds modulo 256; days is kept when below 256, and
\* days and microseconds are the two fields that can lose information.
C18_TimeBytes ==
    (Normalized /\ arg.value.tag = "Time") =>
        LET v == arg.value
            b == ret[1].value.bytes
        IN  /\ ret[1].ok
            /\ ret[1].value.kind = "Bytes"
            /\ Len(b) = 6
            /\ \A k \in 1..6 : b[k] \in 0..255
            /\ b[1] = (IF v.negative THEN 1 ELSE 0)
            /\ b[2] = v.days % 256
            /\ v.days < 256 => b[2] = v.days
            /\ b[3] = v.hours /\ b[4] = v.minutes /\ b[5] = v.seconds
            /\ b[6] = v.micro % 256

\* C18 (as claimed): the payload is the sign flag, then days, hours,
\* minutes and seconds equal to the inputs, then microseconds modulo 256.
C18_OnlyMicrosLossy ==
    (Normalized /\ arg.value.tag = "Time") =>
        LET v == arg.value
            b == ret[1].value.bytes
        IN  /\ Len(b) = 6
            /\ b[1] = (IF v.negative THEN 1 ELSE 0)
            /\ b[2] = v.days
            /\ b[3] = v.hours /\ b[4] = v.minutes /\ b[5] = v.seconds
            /\ b[6] = v.micro % 256

\* C18 witness: a negative duration of 300 days and 999999 microseconds has
\* become the bytes 1, 44 (300 mod 256), 23, 59, 59, 63 (999999 mod 256).
C18_Witness ==
    /\ Normalized
    /\ arg.value.tag = "Time"
    /\ arg.value.negative
    /\ arg.value.days = 300
    /\ arg.value.micro = 999999
    /\ ret[1].value.bytes = <<1, 44, 23, 59, 59, 63>>

\* The stages of a tick that hold the connection acquired at line 132.
Holding == {"prep", "exec", "exec_wait", "map", "send"}

\* C19: an instance holds at most one connection, and holds one only from
\* the acquisition to the end of its tick; when the loop is Waiting or
\* about to acquire, none is held and the pool can serve the acquisition
\* (a connection is idle, or one may be opened), so the acquisition cannot
\* time out on a connection held by the tick before.
C19_ConnectionReturned ==
    \A i \in Instances :
        /\ pool[i].out <= 1
        /\ pool[i].out = 1 <=> pc[i] \in Holding
        /\ pc[i] \in Waiting \cup {"acquire"} =>
              /\ pool[i].out = 0
              /\ pool[i].idle > 0 \/ pool[i].idle + pool[i].out < PoolMax
              /\ \E healthy \in BOOLEAN : TryGetConn(pool[i], healthy).ok

\* C19 witness: the second tick is about to acquire, with the connection of
\* the first back in the pool.
C19_Witness ==
    /\ pc["a"] = "acquire"
    /\ hist["a"].ticks = 1
    /\ Len(sink["a"]) = 1
    /\ pool["a"] = [idle |-> 1, out |-> 0]

\* C20: the hand-off of a record ends in one of two ways: the sink accepts
\* the record and the loop goes on, or the send fails and the task ends
\* there (the unwrap of send_batch), the record not delivered, nothing
\* executed, nothing held; and from then on the instance executes no query
\* and emits no record.
C20_SendFailureTerminates ==
    [][\A i \in Instances :
        /\ (pc[i] = "send" /\ pc'[i] # "send") =>
              \/ /\ pc'[i] = "compute_next"
                 /\ sink'[i] = Append(sink[i], event[i])
              \/ /\ pc'[i] = "panicked"
                 /\ panicked'[i] = "send_batch"
                 /\ sink'[i] = sink[i]
                 /\ hist'[i].queries = hist[i].queries
                 /\ pool'[i].out = 0
        /\ panicked[i] = "send_batch" =>
              /\ pc[i] = "panicked" /\ pc'[i] = "panicked"
              /\ hist'[i].queries = hist[i].queries
              /\ hist'[i].ticks = hist[i].ticks
              /\ sink'[i] = sink[i]
              /\ event'[i] = <<>>]_vars

\* C20 witness: the hand-off of the second tick's record failed; the sink
\* holds the first record only, and time has passed since with nothing
\* more queried or emitted.
C20_Witness ==
    /\ panicked["a"] = "send_batch"
    /\ hist["a"].ticks = 2 /\ hist["a"].queries = 2
    /\ Len(sink["a"]) = 1
    /\ now = MaxTime
    /\ hist["a"].fired < now

====
